---- MODULE Spec2Model ----
(***************************************************************************)
(* NewsCard (src/src/components/NewsCard.tsx): a presentational component  *)
(* that turns an article record into a card element tree.  The only        *)
(* computation is new Date(publicationDate).toLocaleDateString(), which    *)
(* reads the host's default time zone and locale.                          *)
(*                                                                         *)
(* Text that the code only passes through is a TLA+ string.  The           *)
(* publication date, which the code parses and formats, is a sequence of   *)
(* one-character strings, so that parsing and formatting are computed.     *)
(* Time values are minutes since the epoch (the inputs have minute         *)
(* resolution), held in a record that also says whether the value is NaN.   *)
(***************************************************************************)
EXTENDS Integers, Sequences, FiniteSets, TLC

VARIABLES
    article,   \* the record the caller holds and passes in on each render
    cur,       \* <<>> or <<e>>: the latest render pass (props, host, result)
    prev,      \* <<>> or <<e>>: the pass before it, remembered while the
               \* caller's record is the same (a re-render of unchanged props)
    image,     \* the media primitive's request for the latest tree's image
    renders    \* the number of render passes so far

vars == <<article, cur, prev, image, renders>>

---------------------------------------------------------------------------
(* Bounds and input sets *)

MaxRenders == 2

\* "2024-01-15": the date-only form of the spec's example
D_2024_01_15 == <<"2","0","2","4","-","0","1","-","1","5">>
\* "2024-03-01": date-only, the day after a leap day
D_2024_03_01 == <<"2","0","2","4","-","0","3","-","0","1">>
\* "2024-01-15T23:30": date-time form without offset (local time)
DT_2024_01_15_2330 ==
    <<"2","0","2","4","-","0","1","-","1","5","T","2","3",":","3","0">>
\* "not-a-date"
NotADate == <<"n","o","t","-","a","-","d","a","t","e">>
\* "2024-13-01": ISO shape, illegal month
BadMonth == <<"2","0","2","4","-","1","3","-","0","1">>

DateStrings == {D_2024_01_15, D_2024_03_01, DT_2024_01_15_2330, NotADate, BadMonth}

Titles     == {"Markets rally", "Reuters"}
ImageUrls  == {"", "/img/a.jpg"}
Summaries  == {"Stocks rose on Monday."}
Sources    == {"Reuters", " ap "}

\* host time-zone offsets, minutes east of UTC (New York, UTC, Tokyo)
TzOffsets == {-300, 0, 540}
Locales   == {"en-US", "es-ES"}

Records == [title: Titles, imageUrl: ImageUrls, summary: Summaries,
            publicationDate: DateStrings, source: Sources]
Hosts   == [tz: TzOffsets, locale: Locales]

---------------------------------------------------------------------------
(* Completion records of expression evaluation *)

Normal(v) == [type |-> "normal", value |-> v]
Throw(e)  == [type |-> "throw", value |-> e]

---------------------------------------------------------------------------
(* new Date(string): Date.parse on the ISO date-time string format *)

NaN == [nan |-> TRUE, t |-> 0]
TimeValue(t) == [nan |-> FALSE, t |-> t]
MinutesPerDay == 1440

Digits == <<"0","1","2","3","4","5","6","7","8","9">>
IsDigit(c) == \E i \in 1..10 : Digits[i] = c
DigitVal(c) == (CHOOSE i \in 1..10 : Digits[i] = c) - 1

AllDigits(s, from, to) == \A i \in from..to : IsDigit(s[i])

RECURSIVE ToNumber(_, _, _)
ToNumber(s, from, to) ==
    IF to < from THEN 0
    ELSE 10 * ToNumber(s, from, to - 1) + DigitVal(s[to])

IsLeap(y) == (y % 4 = 0 /\ y % 100 # 0) \/ y % 400 = 0
DaysInMonth(y, m) ==
    IF m = 2 THEN (IF IsLeap(y) THEN 29 ELSE 28)
    ELSE IF m \in {4, 6, 9, 11} THEN 30 ELSE 31

\* MakeDay: days since 1970-01-01 of a proleptic Gregorian date
MakeDay(y, m, d) ==
    LET yy  == IF m <= 2 THEN y - 1 ELSE y
        era == yy \div 400
        yoe == yy - era * 400
        mp  == (m + 9) % 12
        doy == (153 * mp + 2) \div 5 + d - 1
        doe == yoe * 365 + yoe \div 4 - yoe \div 100 + doy
    IN  era * 146097 + doe - 719468

\* YearFromTime / MonthFromTime / DateFromTime of a day number
CivilFromDay(z) ==
    LET z2  == z + 719468
        era == z2 \div 146097
        doe == z2 - era * 146097
        yoe == (doe - doe \div 1460 + doe \div 36524 - doe \div 146096) \div 365
        doy == doe - (365 * yoe + yoe \div 4 - yoe \div 100)
        mp  == (5 * doy + 2) \div 153
        d   == doy - (153 * mp + 2) \div 5 + 1
        m   == IF mp < 10 THEN mp + 3 ELSE mp - 9
        y   == yoe + era * 400 + (IF m <= 2 THEN 1 ELSE 0)
    IN  [year |-> y, month |-> m, day |-> d]

DateOnlyShape(s) ==
    /\ Len(s) = 10
    /\ s[5] = "-" /\ s[8] = "-"
    /\ AllDigits(s, 1, 4) /\ AllDigits(s, 6, 7) /\ AllDigits(s, 9, 10)

DateTimeShape(s) ==
    /\ Len(s) = 16
    /\ DateOnlyShape(SubSeq(s, 1, 10))
    /\ s[11] = "T" /\ s[14] = ":"
    /\ AllDigits(s, 12, 13) /\ AllDigits(s, 15, 16)

LegalDate(y, m, d) == m \in 1..12 /\ d \in 1..DaysInMonth(y, m)

\* Date.parse: a date-only form is UTC, a date-time form without an offset is
\* local time; anything else, or an illegal element value, is NaN.
DateParse(s, h) ==
    IF DateOnlyShape(s) THEN
        LET y == ToNumber(s, 1, 4)
            m == ToNumber(s, 6, 7)
            d == ToNumber(s, 9, 10)
        IN  IF LegalDate(y, m, d) THEN TimeValue(MakeDay(y, m, d) * MinutesPerDay) ELSE NaN
    ELSE IF DateTimeShape(s) THEN
        LET y  == ToNumber(s, 1, 4)
            m  == ToNumber(s, 6, 7)
            d  == ToNumber(s, 9, 10)
            hh == ToNumber(s, 12, 13)
            mm == ToNumber(s, 15, 16)
        IN  IF LegalDate(y, m, d) /\ hh \in 0..23 /\ mm \in 0..59
            THEN TimeValue(MakeDay(y, m, d) * MinutesPerDay + hh * 60 + mm - h.tz)
            ELSE NaN
    ELSE NaN

---------------------------------------------------------------------------
(* Date.prototype.toLocaleDateString() with the host's defaults *)

InvalidDateText == <<"I","n","v","a","l","i","d"," ","D","a","t","e">>

RECURSIVE DecimalChars(_)
DecimalChars(n) ==
    IF n < 10 THEN <<Digits[n + 1]>>
    ELSE DecimalChars(n \div 10) \o <<Digits[(n % 10) + 1]>>

\* the locale's short date pattern: en-US M/D/YYYY, es-ES D/M/YYYY
ShortDate(locale, y, m, d) ==
    IF locale = "en-US"
    THEN DecimalChars(m) \o <<"/">> \o DecimalChars(d) \o <<"/">> \o DecimalChars(y)
    ELSE DecimalChars(d) \o <<"/">> \o DecimalChars(m) \o <<"/">> \o DecimalChars(y)

\* LocalTime(t) = t + the host's offset; the day is its floor
LocalDay(tv, h) == (tv.t + h.tz) \div MinutesPerDay

\* a toISOString-like formatter: RangeError on an invalid date
ToLocaleDateStringThrowing(tv, h) ==
    IF tv.nan THEN Throw("RangeError")
    ELSE LET c == CivilFromDay(LocalDay(tv, h))
         IN  Normal(ShortDate(h.locale, c.year, c.month, c.day))

ToLocaleDateString(tv, h) ==
    IF tv.nan THEN Normal(InvalidDateText)
    ELSE LET c == CivilFromDay(LocalDay(tv, h))
         IN  Normal(ShortDate(h.locale, c.year, c.month, c.day))

---------------------------------------------------------------------------
(* The element tree returned by NewsCard *)

TitleClamp   == 2
SummaryClamp == 3

\* a place of the output filled from a prop: the text and the prop it is bound to
Slot(text, prop) == [text |-> text, from |-> prop]

\* <Image ... /> falling back to a placeholder when the URL is empty
ImageElementWithPlaceholder(p) ==
    [src       |-> Slot(IF p.imageUrl = "" THEN "/placeholder.png" ELSE p.imageUrl,
                        "imageUrl"),
     alt       |-> Slot(p.title, "title"),
     fill      |-> TRUE,
     objectFit |-> "cover",
     priority  |-> TRUE]

\* <Image ... /> prioritised only when there is a URL to load
ImageElementPriorityIfUrl(p) ==
    [src       |-> Slot(p.imageUrl, "imageUrl"),
     alt       |-> Slot(p.title, "title"),
     fill      |-> TRUE,
     objectFit |-> "cover",
     priority  |-> (p.imageUrl # "")]

\* <Image src={imageUrl} alt={title} fill className="object-cover" priority />
ImageElement(p) ==
    [src       |-> Slot(p.imageUrl, "imageUrl"),
     alt       |-> Slot(p.title, "title"),
     fill      |-> TRUE,
     objectFit |-> "cover",
     priority  |-> TRUE]

\* <div className="relative h-48 w-full"> around the image
MediaRegion(p) ==
    [position |-> "relative", height |-> "h-48", width |-> "w-full",
     image |-> ImageElement(p)]

\* the title with the summary's clamp
TitleElementClamp3(p) == [content |-> Slot(p.title, "title"), lineClamp |-> SummaryClamp]

\* <h3 className="text-xl font-bold line-clamp-2">{title}</h3>
TitleElement(p) == [content |-> Slot(p.title, "title"), lineClamp |-> TitleClamp]

\* the summary paragraph bound to the title
SummaryElementShowingTitle(p) ==
    [content |-> Slot(p.title, "title"), lineClamp |-> SummaryClamp]

\* <p className="text-gray-300 line-clamp-3">{summary}</p>
SummaryElement(p) == [content |-> Slot(p.summary, "summary"), lineClamp |-> SummaryClamp]

\* the badge with a label in front of the source
BadgeElementLabelled(p) ==
    [content |-> Slot("Source: " \o p.source, "source"), variant |-> "secondary"]

\* <Badge variant="secondary" ...>{source}</Badge>
BadgeElement(p) == [content |-> Slot(p.source, "source"), variant |-> "secondary"]

\* {new Date(publicationDate).toLocaleDateString()}
DateExpression(p, h) == ToLocaleDateString(DateParse(p.publicationDate, h), h)

\* the <Card> with its regions, given the evaluated date text
CardElement(p, dateText) ==
    [hoverScale |-> TRUE,
     media   |-> MediaRegion(p),
     header  |-> TitleElement(p),
     summary |-> SummaryElement(p),
     badge   |-> BadgeElement(p),
     date    |-> [content |-> Slot(dateText, "publicationDate")]]

\* a component that formats the date in an effect after mounting: the first
\* pass shows an empty date, later passes the formatted one
NewsCardDateInEffect(p, h) ==
    LET d == DateExpression(p, h)
    IN  IF d.type = "throw" THEN d
        ELSE Normal(CardElement(p, IF cur = <<>> THEN <<>> ELSE d.value))

\* function NewsCard({title, imageUrl, summary, publicationDate, source}):
\* a throw in the one evaluated expression propagates, otherwise the tree
NewsCard(p, h) ==
    LET d == DateExpression(p, h)
    IN  IF d.type = "throw" THEN d ELSE Normal(CardElement(p, d.value))

---------------------------------------------------------------------------
(* State and operations *)

NoImage == [src |-> "", status |-> "idle"]

\* what the media primitive does with the image element of a finished render
ImageRequest(result, before) ==
    IF result.type = "normal"
    THEN [src    |-> result.value.media.image.src.text,
          status |-> IF result.value.media.image.priority
                     THEN "pending" ELSE "deferred"]
    ELSE before

Init ==
    /\ article \in Records
    /\ cur = <<>>
    /\ prev = <<>>
    /\ image = NoImage
    /\ renders = 0

\* the caller (a parent listing articles) builds the next record to pass in
Supply(p) ==
    /\ p # article
    /\ article' = p
    /\ prev' = <<>>
    /\ UNCHANGED <<cur, image, renders>>

\* the pass before the one starting now, if it was given the same record
Remembered == IF cur # <<>> /\ cur[1].props = article THEN cur ELSE <<>>

\* a render that normalises the caller's record in place
RenderNormalising(h) ==
    /\ renders < MaxRenders
    /\ LET r == NewsCard(article, h)
       IN  /\ cur' = <<[props |-> article, host |-> h, result |-> r]>>
           /\ prev' = Remembered
           /\ image' = ImageRequest(r, image)
    /\ renders' = renders + 1
    /\ article' = [article EXCEPT !.publicationDate = D_2024_01_15]

\* a render that returns only once its image has been fetched
RenderAfterImageLoad(h) ==
    /\ renders < MaxRenders
    /\ LET r == NewsCard(article, h)
       IN  /\ cur' = <<[props |-> article, host |-> h, result |-> r]>>
           /\ prev' = Remembered
           /\ image' = [ImageRequest(r, image) EXCEPT !.status = "loaded"]
    /\ renders' = renders + 1
    /\ UNCHANGED article

\* one render pass on a host h: NewsCard is called with the caller's record and
\* returns; the media primitive then requests the image of the returned tree
Render(h) ==
    /\ renders < MaxRenders
    /\ LET r == NewsCard(article, h)
       IN  /\ cur' = <<[props |-> article, host |-> h, result |-> r]>>
           /\ prev' = Remembered
           /\ image' = ImageRequest(r, image)
    /\ renders' = renders + 1
    /\ UNCHANGED article

\* the media primitive's fetch ends, unseen by the component
ImageLoaded ==
    /\ image.status = "pending"
    /\ image.src # ""
    /\ image' = [image EXCEPT !.status = "loaded"]
    /\ UNCHANGED <<article, cur, prev, renders>>

ImageFailed ==
    /\ image.status = "pending"
    /\ image' = [image EXCEPT !.status = "failed"]
    /\ UNCHANGED <<article, cur, prev, renders>>

Next ==
    \/ \E p \in Records : Supply(p)
    \/ \E h \in Hosts : Render(h)
    \/ ImageLoaded
    \/ ImageFailed

Spec == Init /\ [][Next]_vars

---------------------------------------------------------------------------
(* Properties *)

Rendered  == cur # <<>>
Completed == cur # <<>> /\ cur[1].result.type = "normal"
Props     == cur[1].props
Tree      == cur[1].result.value

Fields == {"title", "imageUrl", "summary", "publicationDate", "source"}

\* the visible regions of a tree, and every place a prop is bound to
Regions(t) == <<t.media.image.src, t.header.content, t.summary.content,
                t.badge.content, t.date.content>>
Places(t)  == Regions(t) \o <<t.media.image.alt>>

BoundTo(places, f) == {i \in 1..Len(places) : places[i].from = f}

DateOnlyInputs    == {D_2024_01_15, D_2024_03_01}
UnparseableInputs == {NotADate, BadMonth}

\* the short form of the calendar date a date-only input names
CalendarShortDate(s, locale) ==
    IF s = D_2024_01_15
    THEN (IF locale = "en-US" THEN <<"1","/","1","5","/","2","0","2","4">>
                              ELSE <<"1","5","/","1","/","2","0","2","4">>)
    ELSE (IF locale = "en-US" THEN <<"3","/","1","/","2","0","2","4">>
                              ELSE <<"1","/","3","/","2","0","2","4">>)

\* C1: for a date-only publicationDate, on every host time-zone offset, the
\* date text is the host locale's short form of the calendar date the string
\* names ("2024-01-15" gives "1/15/2024" under en-US).
C1_DateOnlyShowsItsCalendarDate ==
    (Completed /\ Props.publicationDate \in DateOnlyInputs)
        => Tree.date.content.text
             = CalendarShortDate(Props.publicationDate, cur[1].host.locale)

\* C2 as stated: two renders given equal records produce identical output,
\* nothing but the five fields influencing the result.
C2_PureInFiveFields ==
    (cur # <<>> /\ prev # <<>> /\ prev[1].props = cur[1].props)
        => cur[1].result = prev[1].result

\* C2 as amended: two renders given equal records on hosts with the same default
\* locale and time zone produce identical output.
C2_PureInFieldsAndHost ==
    (cur # <<>> /\ prev # <<>> /\ prev[1].props = cur[1].props
        /\ prev[1].host = cur[1].host)
        => cur[1].result = prev[1].result

C2_Witness ==
    /\ Completed /\ prev # <<>>
    /\ prev[1].props = cur[1].props /\ prev[1].host = cur[1].host
    /\ prev[1].result = cur[1].result

\* C3 as stated: every field is bound to exactly one place of the output; no
\* field is used in two places or in none.
C3_EachFieldInExactlyOnePlace ==
    Completed => \A f \in Fields : Cardinality(BoundTo(Places(Tree), f)) = 1

\* C3 as amended: every field is bound to exactly one visible region (image,
\* headline, summary, badge, date); the one other use of a field is the title
\* as the image's alt text.
C3_EachFieldInExactlyOneRegion ==
    Completed =>
        /\ \A f \in Fields : Cardinality(BoundTo(Regions(Tree), f)) = 1
        /\ \A f \in Fields :
              Cardinality(BoundTo(Places(Tree), f)) = (IF f = "title" THEN 2 ELSE 1)
        /\ Tree.media.image.alt = Slot(Props.title, "title")

C3_Witness ==
    /\ Completed
    /\ Props.title # Props.source
    /\ Tree.header.content.text = Props.title
    /\ Tree.media.image.alt.text = Props.title

\* C4: with an unparseable publicationDate the render completes without an
\* error, the date region shows "Invalid Date", and the image, title, summary
\* and badge regions are what they are for a valid date.
C4_InvalidDateStillRenders ==
    (Rendered /\ Props.publicationDate \in UnparseableInputs) =>
        /\ cur[1].result.type = "normal"
        /\ Tree.date.content.text = InvalidDateText
        /\ Tree.media.image.src.text = Props.imageUrl
        /\ Tree.media.image.alt.text = Props.title
        /\ Tree.header.content.text = Props.title
        /\ Tree.summary.content.text = Props.summary
        /\ Tree.badge.content.text = Props.source

C4_Witness ==
    /\ Completed
    /\ Props.publicationDate = NotADate
    /\ Tree.date.content.text = InvalidDateText

\* C5: with an empty imageUrl the render completes without an error and the
\* empty string is the image source handed to the media primitive.
C5_EmptyImageUrlStillRenders ==
    (Rendered /\ Props.imageUrl = "") =>
        /\ cur[1].result.type = "normal"
        /\ Tree.media.image.src.text = ""

C5_Witness ==
    /\ Completed
    /\ Props.imageUrl = ""
    /\ image.src = "" /\ image.status = "pending"

\* C6: the badge's text is exactly the source string: nothing trimmed,
\* recased, added or cut.
C6_BadgeShowsSourceVerbatim ==
    Completed => Tree.badge.content.text = Props.source

C6_Witness ==
    /\ Completed
    /\ Props.source = " ap "
    /\ Tree.badge.content.text = " ap "

\* C7: a render pass leaves the caller's record as it was, renders that record
\* as given, and changes nothing but the output and the image request: after
\* any renders before it, the output is that of rendering the record alone.
C7_RenderIsStatelessAndFramed ==
    [][renders' # renders =>
          /\ article' = article
          /\ renders' = renders + 1
          /\ cur' # <<>>
          /\ cur'[1].props = article
          /\ cur'[1].result = NewsCard(article, cur'[1].host)
          /\ image' = [src |-> article.imageUrl, status |-> "pending"]]_vars

C7_Witness ==
    /\ renders = MaxRenders
    /\ Completed
    /\ Props = article
    /\ image.src = article.imageUrl

\* C8: in every card the title is clamped to two lines and the summary to
\* three; never the other way round, and never without a clamp.
C8_ClampsAreTwoAndThree ==
    Completed =>
        /\ Tree.header.lineClamp = 2
        /\ Tree.summary.lineClamp = 3

C8_Witness ==
    /\ Completed
    /\ Tree.header.content.text = "Markets rally"
    /\ Tree.header.lineClamp = 2
    /\ Tree.summary.lineClamp = 3

\* C9: the image element has source imageUrl, fills its fixed-height
\* container cropped with object-cover, and always has loading priority,
\* whatever the record; its request is never deferred.
C9_ImageFillsAndHasPriority ==
    Completed =>
        /\ Tree.media.image.src.text = Props.imageUrl
        /\ Tree.media.image.fill
        /\ Tree.media.image.objectFit = "cover"
        /\ Tree.media.image.priority
        /\ Tree.media.height = "h-48"
        /\ image.status # "deferred"

C9_Witness ==
    /\ Completed
    /\ Props.imageUrl = "/img/a.jpg"
    /\ Tree.media.image.priority
    /\ image.src = "/img/a.jpg"

\* C10: a render pass is one uninterrupted step: it ends with its finished
\* output while the image fetch it causes is still pending, so its completion
\* is before, and independent of, the fetch's outcome; and the end of a fetch
\* (loaded or failed) changes nothing of the output and starts no new render.
C10_RenderNeverWaitsForImage ==
    [][/\ renders' # renders =>
              /\ cur' # <<>>
              /\ cur'[1].result.type = "normal"
              /\ image'.status = "pending"
       /\ (image'.status # image.status /\ image'.status \in {"loaded", "failed"})
              => (cur' = cur /\ renders' = renders /\ image'.src = image.src)]_vars

C10_Witness ==
    /\ Completed
    /\ renders < MaxRenders
    /\ image.status = "failed"

====
